---------------------------- MODULE Spec2Model ----------------------------
(***************************************************************************)
(* bench_server (src/main.rs): a fixed-response HTTP(S) benchmark target.  *)
(*                                                                         *)
(* The model follows main() statement by statement: the seven              *)
(* flag > environment > default matches, the HttpServer builder calls,     *)
(* the plaintext bind, the optional TLS set-up and run(); then the         *)
(* route table and the five handlers answering requests.                   *)
(*                                                                         *)
(* Text is a sequence of one-character strings where the program looks     *)
(* inside it (the numeric arguments); file names and IP addresses, which   *)
(* the program only passes on, are atoms.  An environment variable is      *)
(* drawn when dotenv::var looks it up, and a file's existence and content  *)
(* when the file is opened and read.                                       *)
(***************************************************************************)
EXTENDS Integers, Sequences, FiniteSets, TLC

(***************************************************************************)
(* Bounds of the model.                                                    *)
(***************************************************************************)
\* PEM sections a certificate or key file holds at most
MaxSections == 2

(***************************************************************************)
(* Option<T>, as returned by matches.value_of and (Result) by dotenv::var. *)
(***************************************************************************)
None == [some |-> FALSE]

Some(v) == [some |-> TRUE, val |-> v]

\* the environment variable has not been looked up
Unread == [some |-> FALSE, unread |-> TRUE]

(***************************************************************************)
(* Constants of main.rs.                                                   *)
(***************************************************************************)
DEFAULT_IP == "0.0.0.0"

DEFAULT_PORT == 3000

DEFAULT_KEY_FILE == "key.pem"

DEFAULT_CERT_FILE == "cert.pem"

DEFAULT_CONNECTIONS == 25 * 1024

\* the `_ => 0u16` arm of the HTTPS port match
DEFAULT_HTTPS_PORT == 0

\* the `_ => 0` arm of the workers match
DEFAULT_WORKERS == 0

(***************************************************************************)
(* str::parse::<u16>() and str::parse::<usize>().                          *)
(*                                                                         *)
(* core::num's from_str_radix(src, 10) for an unsigned type: an empty      *)
(* string is Empty; a lone sign is InvalidDigit; one leading '+' is        *)
(* dropped, a leading '-' is left in place and so is an invalid digit;     *)
(* then the digits are folded from the left with checked arithmetic, the   *)
(* first non-digit giving InvalidDigit and the first value above the       *)
(* type's MAX giving PosOverflow.                                          *)
(*                                                                         *)
(* Numbers are kept as canonical decimal digit sequences while they are    *)
(* folded, so that usize::MAX (2^64 - 1) is refused exactly.               *)
(***************************************************************************)
Digits == {"0", "1", "2", "3", "4", "5", "6", "7", "8", "9"}

DigitVal(c) ==
    CASE c = "0" -> 0 [] c = "1" -> 1 [] c = "2" -> 2 [] c = "3" -> 3
      [] c = "4" -> 4 [] c = "5" -> 5 [] c = "6" -> 6 [] c = "7" -> 7
      [] c = "8" -> 8 [] c = "9" -> 9

DigitChar(d) ==
    CASE d = 0 -> "0" [] d = 1 -> "1" [] d = 2 -> "2" [] d = 3 -> "3"
      [] d = 4 -> "4" [] d = 5 -> "5" [] d = 6 -> "6" [] d = 7 -> "7"
      [] d = 8 -> "8" [] d = 9 -> "9"

\* u16::MAX = 65535
U16_MAX == <<"6", "5", "5", "3", "5">>

\* usize::MAX on a 64-bit target = 18446744073709551615
USIZE_MAX ==
    <<"1", "8", "4", "4", "6", "7", "4", "4", "0", "7",
      "3", "7", "0", "9", "5", "5", "1", "6", "1", "5">>

RECURSIVE StripZeros(_)
\* the canonical form of a digit sequence: no leading zeros, "0" for zero
StripZeros(ds) ==
    IF Len(ds) > 1 /\ Head(ds) = "0" THEN StripZeros(Tail(ds)) ELSE ds

RECURSIVE LexGreater(_, _)
\* a > b for digit sequences of the same length
LexGreater(a, b) ==
    IF a = <<>> THEN FALSE
    ELSE IF Head(a) # Head(b) THEN DigitVal(Head(a)) > DigitVal(Head(b))
    ELSE LexGreater(Tail(a), Tail(b))

\* a > b for canonical digit sequences
DecGreater(a, b) ==
    \/ Len(a) > Len(b)
    \/ Len(a) = Len(b) /\ LexGreater(a, b)

RECURSIVE FoldDigits(_, _, _)
\* the checked left fold: acc * 10 + digit, failing above max
FoldDigits(src, acc, max) ==
    IF src = <<>> THEN [ok |-> TRUE, val |-> acc, kind |-> "Ok"]
    ELSE IF Head(src) \notin Digits
         THEN [ok |-> FALSE, val |-> <<>>, kind |-> "InvalidDigit"]
    ELSE LET next == StripZeros(acc \o <<Head(src)>>)
         IN  IF DecGreater(next, max)
             THEN [ok |-> FALSE, val |-> <<>>, kind |-> "PosOverflow"]
             ELSE FoldDigits(Tail(src), next, max)

ParseUnsigned(src, max) ==
    IF src = <<>> THEN [ok |-> FALSE, val |-> <<>>, kind |-> "Empty"]
    ELSE IF Len(src) = 1 /\ Head(src) \in {"+", "-"}
         THEN [ok |-> FALSE, val |-> <<>>, kind |-> "InvalidDigit"]
    ELSE IF Head(src) = "+" THEN FoldDigits(Tail(src), <<"0">>, max)
    ELSE FoldDigits(src, <<"0">>, max)

RECURSIVE DecToInt(_, _)
\* the integer a digit sequence denotes (used below u16::MAX only)
DecToInt(ds, acc) ==
    IF ds = <<>> THEN acc ELSE DecToInt(Tail(ds), acc * 10 + DigitVal(Head(ds)))

RECURSIVE ToDecimal(_)
\* Display for an unsigned integer, as used by format!("{}", n)
ToDecimal(n) ==
    IF n < 10 THEN <<DigitChar(n)>>
    ELSE ToDecimal(n \div 10) \o <<DigitChar(n % 10)>>

\* faulty variant: parse().unwrap_or(0) in place of parse()?
ParseU16OrZero(src) ==
    LET r == ParseUnsigned(src, U16_MAX)
    IN  [ok |-> TRUE, val |-> IF r.ok THEN DecToInt(r.val, 0) ELSE 0, kind |-> "Ok"]

\* port.parse::<u16>(): the value is an integer in 0..65535
ParseU16(src) ==
    LET r == ParseUnsigned(src, U16_MAX)
    IN  IF r.ok THEN [ok |-> TRUE, val |-> DecToInt(r.val, 0), kind |-> "Ok"]
        ELSE [ok |-> FALSE, val |-> 0, kind |-> r.kind]

\* workers.parse::<usize>(): the value is a canonical digit sequence
ParseUsize(src) == ParseUnsigned(src, USIZE_MAX)

\* faulty variant: the `> 0` test dropped
UsizeAny(n) == TRUE

\* `n > 0` for a usize held as a canonical digit sequence
UsizePositive(n) == n # <<"0">>


(***************************************************************************)
(* Inputs: the command line and the environment.                           *)
(***************************************************************************)
\* the names of the seven clap arguments
ArgNames == {"key", "cert", "ip", "port", "https", "workers", "max_connections"}

\* values given with -k, -c, -i, -p, -s, -w, -m
FlagValues(arg) ==
    CASE arg = "key" -> {"server.key"}
      [] arg = "cert" -> {"server.crt"}
      [] arg = "ip" -> {"127.0.0.1"}
      [] arg = "port" -> {<<"8", "0", "8", "0">>, <<"6", "5", "5", "3", "6">>}
      [] arg = "https" -> {<<"0">>, <<"-", "1">>}
      [] arg = "workers" -> {<<"4">>, <<>>}
      [] arg = "max_connections" -> {<<"0">>, <<"1", "x">>}

\* values of KEY_FILE, CERT_FILE, SERVER_IP, HTTP_PORT, HTTPS_PORT, WORKERS,
\* CONNECTIONS (after dotenv has merged the .env file into the environment)
EnvValues(arg) ==
    CASE arg = "key" -> {"env.key"}
      [] arg = "cert" -> {"env.crt"}
      [] arg = "ip" -> {"10.0.0.1"}
      [] arg = "port" -> {<<"+", "8", "0">>, <<"+">>}
      [] arg = "https" -> {<<"8", "4", "4", "3">>, <<"7", "0", "0", "0", "0">>}
      [] arg = "workers" -> {USIZE_MAX, <<"1", "8", "4", "4", "6", "7", "4", "4", "0", "7",
                                          "3", "7", "0", "9", "5", "5", "1", "6", "1", "6">>}
      [] arg = "max_connections" -> {<<"0", "0", "7">>, <<" ", "7">>}

\* what matches.value_of(arg) can be
FlagOptions(arg) == {None} \cup {Some(v) : v \in FlagValues(arg)}

\* what dotenv::var(KEY) can be (any Err is the `_` arm: the default)
EnvOptions(arg) == {None} \cup {Some(v) : v \in EnvValues(arg)}

\* every command line of the model
CommandLines ==
    [key : FlagOptions("key"), cert : FlagOptions("cert"), ip : FlagOptions("ip"),
     port : FlagOptions("port"), https : FlagOptions("https"),
     workers : FlagOptions("workers"),
     max_connections : FlagOptions("max_connections")]

(***************************************************************************)
(* State.                                                                  *)
(***************************************************************************)
VARIABLES
    args,        \* matches: clap argument name -> Option<&str>
    env_read,    \* what each dotenv::var call returned (Unread: not called)
    cfg,         \* the locals key_file .. connections, once assigned
    pc,          \* the statement of main() about to run
    err,         \* the Err main() is returning, if any
    server,      \* the HttpServer builder: settings and bound sockets
    opened,      \* the File::open calls made so far, in order
    cert_file_,  \* BufReader over the certificate file
    key_file_,   \* BufReader over the key file
    cert_chain,  \* Vec<Certificate>
    keys,        \* Vec<PrivateKey>
    refused,     \* whether the router has refused a request so far
    request,     \* the last request received
    response     \* the response sent to it

vars ==
    <<args, env_read, cfg, pc, err, server, opened, cert_file_, key_file_,
      cert_chain, keys, refused, request, response>>

\* everything past the configuration block
serverVars ==
    <<server, opened, cert_file_, key_file_, cert_chain, keys, refused,
      request, response>>

NoError == [kind |-> "none", at |-> "none"]

NoServer == [built |-> FALSE, workers |-> None, max_connections |-> None,
             sockets |-> <<>>]

NoRequest == [listener |-> 0, method |-> "none", path |-> "none"]

NoResponse == [status |-> 0, content_type |-> "none", body |-> "none",
               handler |-> "none"]

\* main() is entered: get_matches() has run, nothing else has
InitWith(commandLine) ==
    /\ args = commandLine
    /\ env_read = [a \in ArgNames |-> Unread]
    /\ cfg = <<>>
    /\ pc = "key"
    /\ err = NoError
    /\ server = NoServer
    /\ opened = <<>>
    /\ cert_file_ = None
    /\ key_file_ = None
    /\ cert_chain = <<>>
    /\ keys = <<>>
    /\ refused = FALSE
    /\ request = NoRequest
    /\ response = NoResponse

(***************************************************************************)
(* main(), lines 69-123: the seven flag > environment > default matches.   *)
(***************************************************************************)
\* faulty variant: the variable is looked up before the flag is matched
ReadsEnvAlways(flag) == TRUE

\* the inner match (dotenv::var) is evaluated only in the `_` arm of the outer
ReadsEnv(flag) == ~flag.some

\* faulty variant: the environment arm is forgotten
ChosenFlagOnly(flag, env) == flag

\* the arm taken: Some(flag), else Ok(env), else neither (the default)
Chosen(flag, env) == IF flag.some THEN flag ELSE env

\* `?` on an Err: main() is about to return it
Raise(e) ==
    /\ pc' = "raised"
    /\ err' = e

\* a match whose arms yield a String
ResolveText(arg, local, default, next) ==
    /\ pc = arg
    /\ \E e \in (IF ReadsEnv(args[arg]) THEN EnvOptions(arg) ELSE {Unread}) :
         /\ env_read' = [env_read EXCEPT ![arg] = e]
         /\ LET c == Chosen(args[arg], e)
            IN  cfg' = cfg @@ (local :> IF c.some THEN c.val ELSE default)
    /\ pc' = next
    /\ UNCHANGED <<args, err, serverVars>>

\* text.parse::<T>() for the two integer types main() parses
Parse(type, src) == IF type = "u16" THEN ParseU16(src) ELSE ParseUsize(src)

\* a match whose arms parse an integer and propagate the error with `?`
ResolveNumber(arg, local, type, default, next) ==
    /\ pc = arg
    /\ \E e \in (IF ReadsEnv(args[arg]) THEN EnvOptions(arg) ELSE {Unread}) :
         /\ env_read' = [env_read EXCEPT ![arg] = e]
         /\ LET c == Chosen(args[arg], e)
                r == IF c.some THEN Parse(type, c.val)
                     ELSE [ok |-> TRUE, val |-> default, kind |-> "Ok"]
            IN  IF r.ok
                THEN /\ cfg' = cfg @@ (local :> r.val)
                     /\ pc' = next
                     /\ err' = err
                ELSE /\ Raise([kind |-> "ParseIntError", at |-> arg])
                     /\ cfg' = cfg
    /\ UNCHANGED <<args, serverVars>>

ResolveKeyFile == ResolveText("key", "key_file", DEFAULT_KEY_FILE, "cert")

ResolveCertFile == ResolveText("cert", "cert_file", DEFAULT_CERT_FILE, "ip")

ResolveServerIp == ResolveText("ip", "server_ip", DEFAULT_IP, "port")

ResolveHttpPort ==
    ResolveNumber("port", "http_port", "u16", DEFAULT_PORT, "https")

ResolveHttpsPort ==
    ResolveNumber("https", "https_port", "u16", DEFAULT_HTTPS_PORT, "workers")

ResolveWorkers ==
    ResolveNumber("workers", "workers", "usize", ToDecimal(DEFAULT_WORKERS),
                  "max_connections")

ResolveConnections ==
    ResolveNumber("max_connections", "connections", "usize",
                  ToDecimal(DEFAULT_CONNECTIONS), "new")

\* faulty variant: the server outlives the failed main()
ReturnErrKeepingServer ==
    /\ pc = "raised"
    /\ pc' = "exited"
    /\ UNCHANGED <<args, env_read, cfg, err, serverVars>>

\* main() returns the Err: its locals are dropped, the server and every
\* socket it holds with them, and the process exits with a non-zero status
ReturnErr ==
    /\ pc = "raised"
    /\ pc' = "exited"
    /\ server' = NoServer
    /\ cert_file_' = None
    /\ key_file_' = None
    /\ UNCHANGED <<args, env_read, cfg, err, opened, cert_chain, keys, refused,
                   request, response>>

(***************************************************************************)
(* The configuration block alone, over every command line.                 *)
(***************************************************************************)
InitConfig == \E commandLine \in CommandLines : InitWith(commandLine)

NextConfig ==
    \/ ResolveKeyFile
    \/ ResolveCertFile
    \/ ResolveServerIp
    \/ ResolveHttpPort
    \/ ResolveHttpsPort
    \/ ResolveWorkers
    \/ ResolveConnections
    \/ ReturnErr

SpecConfig == InitConfig /\ [][NextConfig]_vars

(***************************************************************************)
(* The route table (server_routes, benchmark_routes) and the handlers.     *)
(***************************************************************************)
\* the raw string literals the handlers return, named by what they hold.
\* The bodies of bench_post, bench_put and bench_delete are the same text,
\* byte for byte (its "url" is http://httpbin.org/put in all three).
INDEX_HTML == "<html><title>HTTP(S) Benchmark Server</title>...</html>"

GET_JSON == "{args, headers, origin, url: http://www.httpbin.org/get}"

POST_JSON == "{args, data, files, form, headers, json, origin, url: http://httpbin.org/put}"

PUT_JSON == "{args, data, files, form, headers, json, origin, url: http://httpbin.org/put}"

DELETE_JSON == "{args, data, files, form, headers, json, origin, url: http://httpbin.org/put}"

\* HttpResponse::Ok().insert_header(ContentType(ct)).body(body)
Ok(ct, body, handler) ==
    [status |-> 200, content_type |-> ct, body |-> body, handler |-> handler]

index == Ok("text/html; charset=utf-8", INDEX_HTML, "index")

bench_get == Ok("application/json", GET_JSON, "bench_get")

\* faulty variant: the content type of index copied into bench_post
bench_post_html == Ok("text/html; charset=utf-8", POST_JSON, "bench_post")

bench_post == Ok("application/json", POST_JSON, "bench_post")

bench_put == Ok("application/json", PUT_JSON, "bench_put")

bench_delete == Ok("application/json", DELETE_JSON, "bench_delete")

\* cfg.route(path, web::<method>().to(handler))
Route(path, method, handler) ==
    [path |-> path, method |-> method, handler |-> handler]

server_routes == <<Route("/", "GET", "index")>>

benchmark_routes ==
    <<Route("/", "GET", "index"),
      Route("/get", "GET", "bench_get"),
      Route("/post", "POST", "bench_post"),
      Route("/put", "PUT", "bench_put"),
      Route("/delete", "DELETE", "bench_delete")>>

\* App::new().configure(server_routes).configure(benchmark_routes)
AppRoutes == server_routes \o benchmark_routes

\* calling the handler function a route names
Call(handler) ==
    CASE handler = "index" -> index
      [] handler = "bench_get" -> bench_get
      [] handler = "bench_post" -> bench_post
      [] handler = "bench_put" -> bench_put
      [] handler = "bench_delete" -> bench_delete

\* the router's answer when no route takes the request: no handler runs.
\* For a registered path with another method the status is the router's
\* default, 404 or 405 depending on where actix-web keeps the method guard.
Refusals(method, path) ==
    IF \E i \in DOMAIN AppRoutes : AppRoutes[i].path = path
    THEN {[status |-> s, content_type |-> "none", body |-> "none",
           handler |-> "none"] : s \in {404, 405}}
    ELSE {[status |-> 404, content_type |-> "none", body |-> "none",
           handler |-> "none"]}

\* faulty variant: routes registered with web::route(), any method
DispatchByPath(method, path) ==
    LET hits == {i \in DOMAIN AppRoutes : AppRoutes[i].path = path}
    IN  IF hits = {} THEN Refusals(method, path)
        ELSE {Call(AppRoutes[CHOOSE i \in hits : \A j \in hits : i <= j].handler)}

\* the responses the application can give to a request: the first route
\* registered for its path and method is called
Dispatch(method, path) ==
    LET hits == {i \in DOMAIN AppRoutes :
                   AppRoutes[i].path = path /\ AppRoutes[i].method = method}
    IN  IF hits = {} THEN Refusals(method, path)
        ELSE {Call(AppRoutes[CHOOSE i \in hits : \A j \in hits : i <= j].handler)}

(***************************************************************************)
(* main(), lines 125-172: building, binding and running the server.        *)
(***************************************************************************)
\* format!("{}:{}", server_ip, port)
Address(ip, port) == <<ip, ":">> \o ToDecimal(port)

\* faulty variant: the TLS block entered unconditionally
TlsAlways(https_port) == TRUE

\* `if https_port != 0`
TlsEnabled(https_port) == https_port # 0

\* a PEM file is a sequence of sections; a section's bytes are named by its
\* rank among the sections of its kind (the 2nd certificate of the file is 2)
SectionKinds == {"CERTIFICATE", "PRIVATE KEY", "GARBLED"}

PemFiles == UNION {[1..n -> SectionKinds] : n \in 0..MaxSections}

Der(file, i) == Cardinality({j \in 1..i : file[j] = file[i]})

\* rustls_pemfile reads every section and keeps those of one kind, in file
\* order; a section that does not decode is an io::Error
Extract(file, kind) ==
    IF \E i \in DOMAIN file : file[i] = "GARBLED"
    THEN [ok |-> FALSE, val |-> <<>>]
    ELSE [ok |-> TRUE,
          val |-> SelectSeq([i \in DOMAIN file |->
                                IF file[i] = kind THEN Der(file, i) ELSE 0],
                            LAMBDA d : d # 0)]

certs(file) == Extract(file, "CERTIFICATE")

pkcs8_private_keys(file) == Extract(file, "PRIVATE KEY")

\* HttpServer::new(|| App::new().configure(..).configure(..))
NewServer ==
    /\ pc = "new"
    /\ server' = [built |-> TRUE, workers |-> None, max_connections |-> None,
                  sockets |-> <<>>]
    /\ pc' = "set_workers"
    /\ UNCHANGED <<args, env_read, cfg, err, opened, cert_file_, key_file_,
                   cert_chain, keys, refused, request, response>>

\* if workers > 0 { server = server.workers(workers) }
SetWorkers ==
    /\ pc = "set_workers"
    /\ server' = IF UsizePositive(cfg.workers)
                 THEN [server EXCEPT !.workers = Some(cfg.workers)]
                 ELSE server
    /\ pc' = "set_connections"
    /\ UNCHANGED <<args, env_read, cfg, err, opened, cert_file_, key_file_,
                   cert_chain, keys, refused, request, response>>

\* if connections > 0 { server = server.max_connections(connections) }
SetMaxConnections ==
    /\ pc = "set_connections"
    /\ server' = IF UsizePositive(cfg.connections)
                 THEN [server EXCEPT !.max_connections = Some(cfg.connections)]
                 ELSE server
    /\ pc' = "bind_http"
    /\ UNCHANGED <<args, env_read, cfg, err, opened, cert_file_, key_file_,
                   cert_chain, keys, refused, request, response>>

\* let server = server.bind(http_address)?;  the bind can fail (address in
\* use, no permission, unusable address)
BindHttp ==
    /\ pc = "bind_http"
    /\ \E bound \in BOOLEAN :
         IF bound
         THEN /\ server' = [server EXCEPT !.sockets =
                    Append(@, [addr |-> Address(cfg.server_ip, cfg.http_port),
                               tls |-> None])]
              /\ pc' = IF TlsEnabled(cfg.https_port) THEN "open_cert" ELSE "run"
              /\ err' = err
         ELSE /\ Raise([kind |-> "io::Error", at |-> "bind"])
              /\ server' = server
    /\ UNCHANGED <<args, env_read, cfg, opened, cert_file_, key_file_,
                   cert_chain, keys, refused, request, response>>

\* BufReader::new(File::open(cert_file)?)
OpenCertFile ==
    /\ pc = "open_cert"
    /\ opened' = Append(opened, cfg.cert_file)
    /\ \E exists \in BOOLEAN :
         IF exists
         THEN /\ cert_file_' = Some(cfg.cert_file)
              /\ pc' = "open_key"
              /\ err' = err
         ELSE /\ Raise([kind |-> "io::Error", at |-> "open cert_file"])
              /\ cert_file_' = cert_file_
    /\ UNCHANGED <<args, env_read, cfg, server, key_file_, cert_chain, keys,
                   refused, request, response>>

\* BufReader::new(File::open(key_file)?)
OpenKeyFile ==
    /\ pc = "open_key"
    /\ opened' = Append(opened, cfg.key_file)
    /\ \E exists \in BOOLEAN :
         IF exists
         THEN /\ key_file_' = Some(cfg.key_file)
              /\ pc' = "certs"
              /\ err' = err
         ELSE /\ Raise([kind |-> "io::Error", at |-> "open key_file"])
              /\ key_file_' = key_file_
    /\ UNCHANGED <<args, env_read, cfg, server, cert_file_, cert_chain, keys,
                   refused, request, response>>

\* let cert_chain = certs(cert_file_)?.into_iter().map(Certificate).collect();
ReadCerts ==
    /\ pc = "certs"
    /\ \E file \in PemFiles :
         LET r == certs(file)
         IN  IF r.ok
             THEN /\ cert_chain' = r.val
                  /\ pc' = "keys"
                  /\ err' = err
             ELSE /\ Raise([kind |-> "io::Error", at |-> "certs"])
                  /\ cert_chain' = cert_chain
    /\ UNCHANGED <<args, env_read, cfg, server, opened, cert_file_, key_file_,
                   keys, refused, request, response>>

\* let mut keys = pkcs8_private_keys(key_file_)?.into_iter().map(PrivateKey).collect();
ReadKeys ==
    /\ pc = "keys"
    /\ \E file \in PemFiles :
         LET r == pkcs8_private_keys(file)
         IN  IF r.ok
             THEN /\ keys' = r.val
                  /\ pc' = "check_keys"
                  /\ err' = err
             ELSE /\ Raise([kind |-> "io::Error", at |-> "pkcs8_private_keys"])
                  /\ keys' = keys
    /\ UNCHANGED <<args, env_read, cfg, server, opened, cert_file_, key_file_,
                   cert_chain, refused, request, response>>

\* if keys.is_empty() { return Err(anyhow!("Could not locate PKCS 8 private keys.")); }
CheckKeys ==
    /\ pc = "check_keys"
    /\ IF keys = <<>>
       THEN Raise([kind |-> "Could not locate PKCS 8 private keys.",
                   at |-> "keys.is_empty"])
       ELSE pc' = "bind_rustls" /\ err' = err
    /\ UNCHANGED <<args, env_read, cfg, serverVars>>

\* faulty variant: keys.pop() in place of keys.remove(0)
SingleCertLastKey(chain, keyVec) ==
    [client_auth |-> "none", cert_chain |-> chain, key |-> keyVec[Len(keyVec)]]

\* ServerConfig::builder().with_safe_defaults().with_no_client_auth()
\*     .with_single_cert(cert_chain, keys.remove(0))
SingleCert(chain, keyVec) ==
    [client_auth |-> "none", cert_chain |-> chain, key |-> Head(keyVec)]

\* faulty variant: a failed TLS set-up is ignored and plaintext is served
BindRustlsOrPlain ==
    /\ pc = "bind_rustls"
    /\ keys' = Tail(keys)
    /\ \E outcome \in {"bound", "rustls::Error", "io::Error"} :
         server' = IF outcome = "bound"
                   THEN [server EXCEPT !.sockets =
                           Append(@, [addr |-> Address(cfg.server_ip, cfg.https_port),
                                      tls |-> Some(SingleCert(cert_chain, keys))])]
                   ELSE server
    /\ pc' = "run"
    /\ UNCHANGED <<args, env_read, cfg, err, opened, cert_file_, key_file_,
                   cert_chain, refused, request, response>>

\* server.bind_rustls(https_address, config.with_single_cert(..)?)?
\* with_single_cert can reject the key and the bind can fail
BindRustls ==
    /\ pc = "bind_rustls"
    /\ keys' = Tail(keys)
    /\ \E outcome \in {"bound", "rustls::Error", "io::Error"} :
         IF outcome = "bound"
         THEN /\ server' = [server EXCEPT !.sockets =
                    Append(@, [addr |-> Address(cfg.server_ip, cfg.https_port),
                               tls |-> Some(SingleCert(cert_chain, keys))])]
              /\ pc' = "run"
              /\ err' = err
         ELSE /\ Raise([kind |-> outcome, at |-> "bind_rustls"])
              /\ server' = server
    /\ UNCHANGED <<args, env_read, cfg, opened, cert_file_, key_file_,
                   cert_chain, refused, request, response>>

\* .run().await: the workers start accepting on every bound socket
Run ==
    /\ pc = "run"
    /\ pc' = "serving"
    /\ UNCHANGED <<args, env_read, cfg, err, serverVars>>

(***************************************************************************)
(* Serving: a request arrives on one of the bound sockets.                 *)
(***************************************************************************)
Methods == {"GET", "POST", "PUT", "DELETE"}

Paths == {"/", "/get", "/post", "/put", "/delete", "/missing"}

\* every socket of the server hands its connections to the same App factory,
\* so the socket a request came in on plays no part in its dispatch
Request ==
    /\ pc = "serving"
    /\ \E l \in DOMAIN server.sockets, m \in Methods, p \in Paths :
         \E r \in Dispatch(m, p) :
            /\ request' = [listener |-> l, method |-> m, path |-> p]
            /\ response' = r
            /\ refused' = (refused \/ r.handler = "none")
    /\ UNCHANGED <<args, env_read, cfg, pc, err, server, opened, cert_file_,
                   key_file_, cert_chain, keys>>

(***************************************************************************)
(* The whole program, started with -k and -c given (the resolution of the   *)
(* file names from every source is explored by SpecConfig).                *)
(* A termination signal is handled inside the HTTP runtime and is not      *)
(* modelled: a server that runs keeps running.                             *)
(***************************************************************************)
Init ==
    \E commandLine \in CommandLines :
       /\ commandLine.key.some
       /\ commandLine.cert.some
       /\ InitWith(commandLine)

Next ==
    \/ ResolveKeyFile
    \/ ResolveCertFile
    \/ ResolveServerIp
    \/ ResolveHttpPort
    \/ ResolveHttpsPort
    \/ ResolveWorkers
    \/ ResolveConnections
    \/ NewServer
    \/ SetWorkers
    \/ SetMaxConnections
    \/ BindHttp
    \/ OpenCertFile
    \/ OpenKeyFile
    \/ ReadCerts
    \/ ReadKeys
    \/ CheckKeys
    \/ BindRustls
    \/ Run
    \/ Request
    \/ ReturnErr

Spec == Init /\ [][Next]_vars

(***************************************************************************)
(* Properties.  The values a text denotes and the fixtures a route returns *)
(* are written out here, independently of the definitions above.           *)
(***************************************************************************)
NumericArgs == {"port", "https", "workers", "max_connections"}

\* the local variable each argument is resolved into
LocalOf(arg) ==
    CASE arg = "key" -> "key_file"
      [] arg = "cert" -> "cert_file"
      [] arg = "ip" -> "server_ip"
      [] arg = "port" -> "http_port"
      [] arg = "https" -> "https_port"
      [] arg = "workers" -> "workers"
      [] arg = "max_connections" -> "connections"

\* the integer a well-formed numeric text of the model stands for
Denotes(arg, text) ==
    CASE arg = "port" /\ text = <<"8", "0", "8", "0">> -> 8080
      [] arg = "port" /\ text = <<"+", "8", "0">> -> 80
      [] arg = "https" /\ text = <<"0">> -> 0
      [] arg = "https" /\ text = <<"8", "4", "4", "3">> -> 8443
      [] arg = "workers" /\ text = <<"4">> -> <<"4">>
      [] arg = "workers" /\ text = USIZE_MAX -> USIZE_MAX
      [] arg = "max_connections" /\ text = <<"0">> -> <<"0">>
      [] arg = "max_connections" /\ text = <<"0", "0", "7">> -> <<"7">>
      [] OTHER -> "no value"

\* the numeric texts of the model that are not an integer of the field's type
Malformed(arg) ==
    CASE arg = "port" -> {<<"6", "5", "5", "3", "6">>, <<"+">>}
      [] arg = "https" -> {<<"-", "1">>, <<"7", "0", "0", "0", "0">>}
      [] arg = "workers" ->
           {<<>>, <<"1", "8", "4", "4", "6", "7", "4", "4", "0", "7",
                    "3", "7", "0", "9", "5", "5", "1", "6", "1", "6">>}
      [] arg = "max_connections" -> {<<"1", "x">>, <<" ", "7">>}

\* the documented default of each field
DefaultOf(arg) ==
    CASE arg = "key" -> "key.pem"
      [] arg = "cert" -> "cert.pem"
      [] arg = "ip" -> "0.0.0.0"
      [] arg = "port" -> 3000
      [] arg = "https" -> 0
      [] arg = "workers" -> <<"0">>
      [] arg = "max_connections" -> <<"2", "5", "6", "0", "0">>

\* the source a field's value is selected from: the flag if given, else the
\* environment variable if set
Selected(arg) == IF args[arg].some THEN args[arg] ELSE env_read[arg]

\* the value precedence prescribes for a field
Prescribed(arg) ==
    LET sel == Selected(arg)
    IN  IF ~sel.some THEN DefaultOf(arg)
        ELSE IF arg \in NumericArgs THEN Denotes(arg, sel.val)
        ELSE sel.val

UpTo(arg) ==
    CASE arg = "port" -> {"key", "cert", "ip", "port"}
      [] arg = "https" -> {"key", "cert", "ip", "port", "https"}
      [] arg = "workers" -> {"key", "cert", "ip", "port", "https", "workers"}
      [] arg = "max_connections" ->
           {"key", "cert", "ip", "port", "https", "workers", "max_connections"}

\* C5: when the value selected for a numeric field is not an integer of its
\* type, main() gets no further than that field: it returns a ParseIntError,
\* no server is built, no listener is bound, the field gets no fallback value
\* and the serving state is never reached.
C5_ParseFailureIsFatal ==
    \A arg \in NumericArgs :
       (Selected(arg).some /\ Selected(arg).val \in Malformed(arg)) =>
          /\ pc \in UpTo(arg) \cup {"raised", "exited"}
          /\ pc \in {"raised", "exited"} => err.kind = "ParseIntError"
          /\ LocalOf(arg) \notin DOMAIN cfg
          /\ server = NoServer
          /\ request = NoRequest

\* main() has returned the error of a malformed WORKERS value, after the
\* fields before it were resolved
C5_Witness ==
    /\ pc = "exited"
    /\ err = [kind |-> "ParseIntError", at |-> "workers"]
    /\ ~args.workers.some /\ env_read.workers.some
    /\ "https_port" \in DOMAIN cfg
    /\ server.sockets = <<>>

\* the steps of main() after the two `if n > 0` statements, the server alive
Configured ==
    {"bind_http", "open_cert", "open_key", "certs", "keys", "check_keys",
     "bind_rustls", "run", "serving", "raised"}

\* C6: server.workers(n) is called iff workers > 0, with n = workers, and
\* server.max_connections(n) iff connections > 0, with n = connections; a 0
\* is never passed on, the runtime's default stays.
C6_ZeroNotPassed ==
    (pc \in Configured /\ server.built) =>
       /\ server.workers.some <=> cfg.workers # <<"0">>
       /\ server.workers.some => server.workers.val = cfg.workers
       /\ server.max_connections.some <=> cfg.connections # <<"0">>
       /\ server.max_connections.some =>
             server.max_connections.val = cfg.connections

\* serving with -m 0 (no cap passed on) and -w 4 (passed on)
C6_Witness ==
    /\ pc = "serving"
    /\ cfg.connections = <<"0">> /\ ~server.max_connections.some
    /\ cfg.workers = <<"4">> /\ server.workers = Some(<<"4">>)

\* the places where main() fails reading the certificate or key material
TlsMaterialFailures ==
    {"open cert_file", "open key_file", "certs", "pkcs8_private_keys",
     "keys.is_empty"}

\* main() is failing on the certificate or key material: a file that cannot
\* be opened or decoded, no PKCS#8 key, or a key rustls rejects
TlsMaterialError ==
    err.at \in TlsMaterialFailures \/ err.kind = "rustls::Error"

\* the plaintext socket main() binds
HttpSocket ==
    [addr |-> Address(cfg.server_ip, cfg.http_port), tls |-> None]

\* C2 as stated: at the moment an error about the certificate or key
\* material is raised, no listener is bound.
C2_NoListenerBoundAtTlsError ==
    (pc = "raised" /\ TlsMaterialError) => server.sockets = <<>>

\* C2 as amended: a failure on the certificate or key material happens with
\* HTTPS enabled and the plaintext socket already bound (and no TLS socket);
\* the server was never run and answered no request, and once main() has
\* returned the error no socket is left.
C2_TlsFailureStopsStartup ==
    TlsMaterialError =>
       /\ cfg.https_port # 0
       /\ pc \in {"raised", "exited"}
       /\ pc = "raised" => server.sockets = <<HttpSocket>>
       /\ pc = "exited" => server.sockets = <<>>
       /\ request = NoRequest

\* main() has returned the error of a key file without a PKCS#8 key
C2_Witness ==
    /\ pc = "exited"
    /\ err.at = "keys.is_empty"
    /\ opened = <<cfg.cert_file, cfg.key_file>>
    /\ server.sockets = <<>>

\* C3: with a resolved HTTPS port of 0 neither file is ever opened, no TLS
\* socket is ever bound and nothing about TLS can fail: the only error left
\* after the configuration is that of the plaintext bind, and the server
\* that runs has the plaintext socket alone.
C3_NoTlsWhenPortZero ==
    ("https_port" \in DOMAIN cfg /\ cfg.https_port = 0) =>
       /\ opened = <<>>
       /\ ~cert_file_.some /\ ~key_file_.some
       /\ cert_chain = <<>> /\ keys = <<>>
       /\ \A i \in DOMAIN server.sockets : ~server.sockets[i].tls.some
       /\ pc \notin {"open_cert", "open_key", "certs", "keys", "check_keys",
                     "bind_rustls"}
       /\ err.at \in {"none", "workers", "max_connections", "bind"}
       /\ pc = "serving" => server.sockets = <<HttpSocket>>

\* serving requests with HTTPS switched off by `-s 0`
C3_Witness ==
    /\ pc = "serving"
    /\ args.https.some /\ cfg.https_port = 0
    /\ opened = <<>>
    /\ Len(server.sockets) = 1
    /\ response.status = 200

\* C4: while the server runs, its first socket is the plaintext one at
\* ip:http_port, and it has a second socket, a TLS one at ip:https_port, iff
\* the resolved HTTPS port is not 0; a request is answered from the one
\* route table whichever socket it came in on.
C4_ListenersWhileServing ==
    pc = "serving" =>
       /\ Len(server.sockets) = (IF cfg.https_port = 0 THEN 1 ELSE 2)
       /\ server.sockets[1] = HttpSocket
       /\ cfg.https_port # 0 =>
             /\ server.sockets[2].addr = Address(cfg.server_ip, cfg.https_port)
             /\ server.sockets[2].tls.some
       /\ request # NoRequest =>
             /\ request.listener \in DOMAIN server.sockets
             /\ response \in Dispatch(request.method, request.path)

\* both listeners up, at 127.0.0.1:80 and 127.0.0.1:8443, a request answered
\* on the TLS one
C4_Witness ==
    /\ pc = "serving"
    /\ server.sockets[1].addr = <<"127.0.0.1", ":", "8", "0">>
    /\ Len(server.sockets) = 2
    /\ server.sockets[2].addr = <<"127.0.0.1", ":", "8", "4", "4", "3">>
    /\ request.listener = 2
    /\ response.handler = "bench_get"

\* the TLS socket of the server, when it has one
TlsSockets == {i \in DOMAIN server.sockets : server.sockets[i].tls.some}

\* C7: with HTTPS enabled and both files read, a key file without a PKCS#8
\* key ends startup with "Could not locate PKCS 8 private keys." and the
\* server never runs; otherwise the TLS context that gets bound holds the
\* first key of the file (the later ones stay unused), the certificates of the
\* certificate file in file order and asks for no client certificate.
C7_FirstKeyFullChain ==
    /\ err.at = "keys.is_empty" =>
          /\ err.kind = "Could not locate PKCS 8 private keys."
          /\ keys = <<>>
          /\ Len(opened) = 2
          /\ pc \in {"raised", "exited"}
          /\ TlsSockets = {}
          /\ request = NoRequest
    /\ pc = "bind_rustls" => keys # <<>>
    /\ \A i \in TlsSockets :
          LET tls == server.sockets[i].tls.val
          IN  /\ tls.key = 1
              /\ keys = [k \in 1..Len(keys) |-> k + 1]
              /\ tls.cert_chain = cert_chain
              /\ tls.cert_chain = [c \in 1..Len(cert_chain) |-> c]
              /\ tls.client_auth = "none"

\* serving over TLS from a two-certificate chain and a key file with two
\* keys, the second of them left over
C7_Witness ==
    /\ pc = "serving"
    /\ TlsSockets = {2}
    /\ server.sockets[2].tls.val.cert_chain = <<1, 2>>
    /\ server.sockets[2].tls.val.key = 1
    /\ keys = <<2>>

\* the documented response of each route
Fixture(method, path) ==
    CASE method = "GET" /\ path = "/" ->
           [status |-> 200, content_type |-> "text/html; charset=utf-8",
            body |-> INDEX_HTML, handler |-> "index"]
      [] method = "GET" /\ path = "/get" ->
           [status |-> 200, content_type |-> "application/json",
            body |-> GET_JSON, handler |-> "bench_get"]
      [] method = "POST" /\ path = "/post" ->
           [status |-> 200, content_type |-> "application/json",
            body |-> POST_JSON, handler |-> "bench_post"]
      [] method = "PUT" /\ path = "/put" ->
           [status |-> 200, content_type |-> "application/json",
            body |-> PUT_JSON, handler |-> "bench_put"]
      [] method = "DELETE" /\ path = "/delete" ->
           [status |-> 200, content_type |-> "application/json",
            body |-> DELETE_JSON, handler |-> "bench_delete"]

Documented ==
    {<<"GET", "/">>, <<"GET", "/get">>, <<"POST", "/post">>, <<"PUT", "/put">>,
     <<"DELETE", "/delete">>}

\* C8: a request for GET /, GET /get, POST /post, PUT /put or DELETE /delete
\* is answered 200 with the route's content type and fixed body, on either
\* socket and whatever was requested or refused before.
C8_FixedResponses ==
    <<request.method, request.path>> \in Documented =>
       /\ pc = "serving"
       /\ response = Fixture(request.method, request.path)

\* POST /post answered on the TLS socket after an earlier request was refused
C8_Witness ==
    /\ request = [listener |-> 2, method |-> "POST", path |-> "/post"]
    /\ refused
    /\ response.status = 200
    /\ response.content_type = "application/json"

BenchmarkPaths == {"/get", "/post", "/put", "/delete"}

\* C9: a request to a benchmark path with a method that is not the registered
\* one calls no handler and is answered 404 or 405; after a refusal the
\* server is still serving on the same sockets, and a correctly routed
\* request is answered 200 then as before.
C9_WrongMethodRefused ==
    /\ (request.path \in BenchmarkPaths
          /\ <<request.method, request.path>> \notin Documented) =>
          /\ response.handler = "none"
          /\ response.body = "none"
          /\ response.status \in {404, 405}
          /\ refused
    /\ refused =>
          /\ pc = "serving"
          /\ err = NoError
          /\ server.sockets # <<>>
          /\ <<request.method, request.path>> \in Documented =>
                response.status = 200

\* POST /get has just been refused by the running server
C9_Witness ==
    /\ pc = "serving"
    /\ request.method = "POST" /\ request.path = "/get"
    /\ response.handler = "none"
    /\ response.status \in {404, 405}

\* C10: for a numeric field whose flag is given, the environment variable is
\* never looked up: a flag with a well-formed value is resolved to that value
\* and main() does not fail on that field, whatever the variable holds.
C10_EnvSkippedWhenFlagGiven ==
    \A arg \in NumericArgs :
       args[arg].some =>
          /\ env_read[arg] = Unread
          /\ args[arg].val \notin Malformed(arg) =>
                /\ err.at # arg
                /\ LocalOf(arg) \in DOMAIN cfg =>
                      cfg[LocalOf(arg)] = Denotes(arg, args[arg].val)

\* -p 8080 and -w 4 resolved without HTTP_PORT or WORKERS being read, while
\* HTTPS_PORT and CONNECTIONS, whose flags are absent, were read
C10_Witness ==
    /\ pc = "new"
    /\ args.port.some /\ env_read.port = Unread /\ cfg.http_port = 8080
    /\ args.workers.some /\ env_read.workers = Unread /\ cfg.workers = <<"4">>
    /\ ~args.https.some /\ env_read.https.some
    /\ ~args.max_connections.some /\ env_read.max_connections.some

=============================================================================
